---- MODULE Spec2Model ----
(***************************************************************************)
(* Model of detection/cerberus_models.py: the NSFWImageDetector lifecycle  *)
(* (load / classify / unload / is_model_downloaded / download_model) and   *)
(* the post-processing that classify applies to the score distribution.    *)
(*                                                                         *)
(* Lines 46 and 52 of the source carry a stray double quote after          *)
(* cache_dir=self.cache_dir; the model follows the statements as they are  *)
(* evidently meant (the keyword argument cache_dir=self.cache_dir).        *)
(***************************************************************************)
EXTENDS Integers, Sequences, FiniteSets, TLC

(* ---------------------------------------------------------------------- *)
(* Bounds                                                                  *)
(* ---------------------------------------------------------------------- *)

\* from_pretrained objects created over a run (each gets a fresh identity)
MaxObjects == 4

\* resolution of the probability distribution: scores are k/Scale
Scale == 2

\* largest top_k a caller passes (one more than the longest taxonomy)
MaxTopK == 5

(* ---------------------------------------------------------------------- *)
(* Values                                                                  *)
(* ---------------------------------------------------------------------- *)

\* Python's None for the three resource attributes
None == 0

NoDevice == "None"

Unset == <<None, None, NoDevice>>

\* all three resource attributes are set
Ready(f) == f[1] # None /\ f[2] # None /\ f[3] # NoDevice

MODEL_ID == "Freepik/nsfw_image_detector"

DefaultCacheDir == "./models/hf"

\* the two artifacts load() resolves from the cache, in acquisition order
ProcessorFiles == "preprocessor"

ModelFiles == "classifier"

Artifacts == {ProcessorFiles, ModelFiles}

\* variant: the priority list written lowest tier first
label_orderAscending == <<"neutral", "low", "medium", "high">>

\* label_order of classify (line 129)
label_order == <<"high", "medium", "low", "neutral">>

\* model.config.id2label: the taxonomy the loaded classifier supplies.  The
\* first is the four-label taxonomy of MODEL_ID, the second is shorter and
\* carries a label outside label_order.  Labels of one taxonomy are pairwise
\* distinct.
Taxonomies ==
  { <<"neutral", "low", "medium", "high">>,
    <<"neutral", "high", "explicit">> }

Images == {"valid", "invalid"}

VARIABLES
  processor,   \* self.processor: None or the identity of the loaded processor
  model,       \* self.model: None or the identity of the loaded model
  device,      \* self.device: "None", "cpu" or "cuda:0"
  cache_dir,   \* self.cache_dir
  store,       \* artifacts of MODEL_ID present under cache_dir
  cuda,        \* what torch.cuda.is_available() answers in this process
  id2label,    \* config.id2label of the classifier artifact
  scores,      \* softmax of the logits the classifier computes for the image
  acquired,    \* number of objects from_pretrained has created so far
  sinceUnload, \* an unload() has run and no load() has succeeded since
  downloaded,  \* a download_model() has succeeded
  twice,       \* the last two calls were both unload()
  checked,     \* what is_model_downloaded() answered, if it was the call
               \* right before the last one ("none" otherwise)
  last         \* the last call: arguments, outcome, side effects, pre-state

vars == <<processor, model, device, cache_dir, store, cuda, id2label, scores,
          acquired, sinceUnload, downloaded, twice, checked, last>>

fields == <<processor, model, device>>

(* ---------------------------------------------------------------------- *)
(* Helpers                                                                 *)
(* ---------------------------------------------------------------------- *)

Range(s) == {s[i] : i \in 1..Len(s)}

RECURSIVE SumSeq(_)
SumSeq(s) == IF s = <<>> THEN 0 ELSE s[1] + SumSeq(Tail(s))

\* variant: the scores taken without normalising them
DistributionsUnnormalised(n) == [1..n -> 0..Scale]

\* torch.softmax(logits_cpu, dim=-1): a distribution over the labels, here
\* with scores in units of 1/Scale
Distributions(n) == {p \in [1..n -> 0..Scale] : SumSeq(p) = Scale}

NoArgs == [image |-> "valid", top_k |-> <<>>, sort |-> FALSE,
           empty_cuda_cache |-> FALSE]

NoLocals == [inputs |-> "unbound", outputs |-> "unbound",
             logits_cpu |-> "unbound", probs |-> "unbound",
             indices |-> "unbound"]

\* the record of a call that is not a classify
Call(op, result, ret, effects) ==
  [op |-> op, result |-> result, ret |-> ret, effects |-> effects,
   pre |-> fields, pre_store |-> store, pre_cache_dir |-> cache_dir,
   args |-> NoArgs, probs |-> <<>>, indices |-> <<>>,
   results |-> <<>>, locals |-> NoLocals]

(* ---------------------------------------------------------------------- *)
(* __init__ (lines 17-29)                                                  *)
(* ---------------------------------------------------------------------- *)

Init ==
  /\ processor = None
  /\ model = None
  /\ device = NoDevice
  /\ cache_dir = DefaultCacheDir
  /\ store = {}
  /\ cuda \in BOOLEAN
  /\ id2label \in Taxonomies
  /\ scores \in Distributions(Len(id2label))
  /\ acquired = 0
  /\ sinceUnload = FALSE
  /\ downloaded = FALSE
  /\ twice = FALSE
  /\ checked = "none"
  /\ last = Call("__init__", "ok", "None", <<>>)

(* ---------------------------------------------------------------------- *)
(* load (lines 31-59)                                                      *)
(* ---------------------------------------------------------------------- *)

\* from_pretrained(MODEL_ID, cache_dir, local_files_only=True) resolves an
\* artifact exactly when it is in the local cache; it never fetches
Resolvable(artifact) == artifact \in store

\* variant: the device fixed to the CPU
SelectDeviceCpuOnly(available) == "cpu"

\* torch.device("cuda:0" if torch.cuda.is_available() else "cpu")
SelectDevice(available) == IF available THEN "cuda:0" ELSE "cpu"

\* line 44 raises: nothing has been assigned yet
LoadFailsAtProcessor ==
  /\ ~Resolvable(ProcessorFiles)
  /\ last' = Call("load", "ResourceUnavailable", "raised",
                  <<"from_pretrained:processor">>)
  /\ UNCHANGED <<processor, model, device, acquired, sinceUnload>>

\* line 44 has assigned self.processor, line 50 raises
LoadFailsAtModel ==
  /\ Resolvable(ProcessorFiles)
  /\ ~Resolvable(ModelFiles)
  /\ acquired + 1 <= MaxObjects
  /\ processor' = acquired + 1
  /\ acquired' = acquired + 1
  /\ last' = Call("load", "ResourceUnavailable", "raised",
                  <<"from_pretrained:processor", "from_pretrained:model">>)
  /\ UNCHANGED <<model, device, sinceUnload>>

\* variant: load() returning at once on a detector that is already Ready
LoadSucceedsShortCircuit ==
  /\ Resolvable(ProcessorFiles)
  /\ Resolvable(ModelFiles)
  /\ IF Ready(fields)
       THEN /\ UNCHANGED <<processor, model, device, acquired, sinceUnload>>
            /\ last' = Call("load", "ok", "self", <<>>)
       ELSE /\ acquired + 2 <= MaxObjects
            /\ processor' = acquired + 1
            /\ model' = acquired + 2
            /\ acquired' = acquired + 2
            /\ device' = SelectDevice(cuda)
            /\ sinceUnload' = FALSE
            /\ last' = Call("load", "ok", "self",
                            <<"from_pretrained:processor",
                              "from_pretrained:model", "cuda.is_available",
                              "model.to", "model.eval">>)

LoadSucceeds ==
  /\ Resolvable(ProcessorFiles)
  /\ Resolvable(ModelFiles)
  /\ acquired + 2 <= MaxObjects
  /\ processor' = acquired + 1
  /\ model' = acquired + 2
  /\ acquired' = acquired + 2
  /\ device' = SelectDevice(cuda)
  /\ sinceUnload' = FALSE
  /\ last' = Call("load", "ok", "self",
                  <<"from_pretrained:processor", "from_pretrained:model",
                    "cuda.is_available", "model.to", "model.eval">>)

load ==
  /\ \/ LoadFailsAtProcessor
     \/ LoadFailsAtModel
     \/ LoadSucceeds
  /\ twice' = FALSE
  /\ checked' = IF last.op = "is_model_downloaded" THEN last.ret ELSE "none"
  /\ UNCHANGED <<cache_dir, store, cuda, id2label, scores, downloaded>>

(* ---------------------------------------------------------------------- *)
(* unload (lines 151-170)                                                  *)
(* ---------------------------------------------------------------------- *)

\* variant: the early return taken when either reference is unset
AlreadyUnloadedEither(m, p) == m = None \/ p = None

\* variant: no early return
AlreadyUnloadedNever(m, p) == FALSE

\* the early return of line 159
AlreadyUnloaded(m, p) == m = None /\ p = None

\* lines 166-170
Reclaim(available) ==
  <<"gc.collect", "cuda.is_available">> \o
  (IF available THEN <<"cuda.empty_cache", "cuda.ipc_collect">> ELSE <<>>)

unload ==
  /\ IF AlreadyUnloaded(model, processor)
       THEN /\ UNCHANGED <<processor, model, device>>
            /\ last' = Call("unload", "ok", "None", <<>>)
       ELSE /\ model' = None
            /\ processor' = None
            /\ device' = NoDevice
            /\ last' = Call("unload", "ok", "None",
                            <<"clear_references">> \o Reclaim(cuda))
  /\ sinceUnload' = TRUE
  /\ twice' = (last.op = "unload")
  /\ checked' = "none"
  /\ UNCHANGED <<cache_dir, store, cuda, id2label, scores, acquired,
                 downloaded>>

(* ---------------------------------------------------------------------- *)
(* is_model_downloaded (lines 172-190), download_model (lines 192-197)     *)
(* ---------------------------------------------------------------------- *)

\* variant: a lookup that never finds the snapshot
SnapshotFoundNever == FALSE

\* snapshot_download(..., local_files_only=True) finds the snapshot of
\* MODEL_ID under cache_dir once it holds at least one file (docstring,
\* line 179); otherwise it raises LocalEntryNotFoundError
SnapshotFound == store # {}

\* variant: the presence check done by loading the model
is_model_downloadedByLoading ==
  /\ IF store = Artifacts /\ acquired + 2 <= MaxObjects
       THEN /\ processor' = acquired + 1
            /\ model' = acquired + 2
            /\ acquired' = acquired + 2
            /\ device' = IF cuda THEN "cuda:0" ELSE "cpu"
            /\ last' = Call("is_model_downloaded", "ok", "True",
                            <<"snapshot_download:local">>)
       ELSE /\ UNCHANGED <<processor, model, device, acquired>>
            /\ last' = Call("is_model_downloaded", "ok",
                            IF store # {} THEN "True" ELSE "False",
                            <<"snapshot_download:local">>)
  /\ twice' = FALSE
  /\ checked' = "none"
  /\ UNCHANGED <<cache_dir, store, cuda, id2label, scores, sinceUnload,
                 downloaded>>

\* variant: snapshot_download called without local_files_only
is_model_downloadedFetching ==
  /\ store' = Artifacts
  /\ last' = Call("is_model_downloaded", "ok", "True",
                  <<"snapshot_download">>)
  /\ twice' = FALSE
  /\ checked' = "none"
  /\ UNCHANGED <<processor, model, device, cache_dir, cuda, id2label,
                 scores, acquired, sinceUnload, downloaded>>

is_model_downloaded ==
  /\ last' = Call("is_model_downloaded", "ok",
                  IF SnapshotFound THEN "True" ELSE "False",
                  <<"snapshot_download:local">>)
  /\ twice' = FALSE
  /\ checked' = "none"
  /\ UNCHANGED <<processor, model, device, cache_dir, store, cuda, id2label,
                 scores, acquired, sinceUnload, downloaded>>

\* variant: a download restricted to the preprocessor files
DownloadSucceedsProcessorOnly ==
  /\ store' = store \cup {ProcessorFiles}
  /\ downloaded' = TRUE
  /\ last' = Call("download_model", "ok", "None", <<"snapshot_download">>)

\* snapshot_download without local_files_only fetches every file of the
\* repository into cache_dir
DownloadSucceeds ==
  /\ store' = Artifacts
  /\ downloaded' = TRUE
  /\ last' = Call("download_model", "ok", "None", <<"snapshot_download">>)

\* the fetch raises part-way: the files already written stay in the cache
DownloadFails ==
  /\ \E fetched \in SUBSET Artifacts :
        /\ store \cup fetched # Artifacts \/ fetched = {}
        /\ store' = store \cup fetched
  /\ UNCHANGED downloaded
  /\ last' = Call("download_model", "FetchError", "raised",
                  <<"snapshot_download">>)

download_model ==
  /\ \/ DownloadSucceeds
     \/ DownloadFails
  /\ twice' = FALSE
  /\ checked' = "none"
  /\ UNCHANGED <<processor, model, device, cache_dir, cuda, id2label, scores,
                 acquired, sinceUnload>>

(* ---------------------------------------------------------------------- *)
(* classify (lines 61-149)                                                 *)
(* ---------------------------------------------------------------------- *)

\* variant: the guard joined with "and"
NotLoadedOnlyIfAllUnset(m, p, d) == m = None /\ p = None /\ d = NoDevice

\* line 91
NotLoaded(m, p, d) == m = None \/ p = None \/ d = NoDevice

\* variant: the lower bound tested with < instead of <=
TopKOutOfBoundsBelowZero(top_k, num_labels) ==
  top_k # <<>> /\ (top_k[1] < 0 \/ top_k[1] > num_labels)

\* line 113; top_k is <<>> for None and <<k>> for an integer k
TopKOutOfBounds(top_k, num_labels) ==
  top_k # <<>> /\ (top_k[1] <= 0 \/ top_k[1] > num_labels)

\* every listing of the indices in S by non-increasing score
RECURSIVE Descending(_, _)
Descending(probs, S) ==
  IF S = {} THEN {<<>>}
  ELSE UNION { {<<i>> \o t : t \in Descending(probs, S \ {i})} :
               i \in {j \in S : \A k \in S : probs[j] >= probs[k]} }

\* torch.argsort(probs, descending=True): stable is left at its default
\* (False), so the order among equal scores is whatever the sort produces
argsort(probs) == Descending(probs, DOMAIN probs)

\* variant: torch.topk(probs, k, largest=False)
topkSmallest(probs, k) ==
  {[n \in 1..k |-> o[Len(o) + 1 - n]] : o \in argsort(probs)}

\* torch.topk(probs, k).indices: the k largest, largest first; which of
\* several equal scores are taken, and in what order, is not specified
topk(probs, k) == {SubSeq(o, 1, k) : o \in argsort(probs)}

\* lines 116-119
SelectIndices(probs, top_k) ==
  IF top_k = <<>> THEN argsort(probs) ELSE topk(probs, top_k[1])

\* lines 121-124
BuildResults(labels, probs, indices) ==
  [n \in 1..Len(indices) |->
     [label |-> labels[indices[n]], score |-> probs[indices[n]]]]

\* line 130: a dict keeps the last entry written under a key
ResultByLabel(results, label) ==
  results[CHOOSE n \in 1..Len(results) :
            /\ results[n].label = label
            /\ \A m \in (n + 1)..Len(results) : results[m].label # label]

\* variant: a priority label that is missing is filled in with score 0
RECURSIVE ReorderPadding(_, _)
ReorderPadding(results, order) ==
  IF order = <<>> THEN <<>>
  ELSE (IF \E n \in 1..Len(results) : results[n].label = order[1]
          THEN <<ResultByLabel(results, order[1])>>
          ELSE <<[label |-> order[1], score |-> 0]>>)
       \o ReorderPadding(results, Tail(order))

\* lines 129-135
RECURSIVE Reorder(_, _)
Reorder(results, order) ==
  IF order = <<>> THEN <<>>
  ELSE (IF \E n \in 1..Len(results) : results[n].label = order[1]
          THEN <<ResultByLabel(results, order[1])>>
          ELSE <<>>) \o Reorder(results, Tail(order))

\* variant: the cache cleared whatever empty_cuda_cache says
FinallyIgnoringFlag(empty_cuda_cache, available) ==
  <<"release", "cuda.is_available">> \o
  (IF available THEN <<"cuda.empty_cache">> ELSE <<>>)

\* lines 138-149: the finally block
\* (line 148 asks torch.cuda.is_available() only when empty_cuda_cache is set)
Finally(empty_cuda_cache, available) ==
  <<"release">> \o
  (IF empty_cuda_cache
     THEN <<"cuda.is_available">> \o
          (IF available THEN <<"cuda.empty_cache">> ELSE <<>>)
     ELSE <<>>)

\* variant: a finally block that forgets probs = None
ReleasedExceptProbs ==
  [inputs |-> "None", outputs |-> "None", logits_cpu |-> "None",
   probs |-> "held", indices |-> "None"]

\* lines 139-146: every intermediate is rebound to None
Released == [inputs |-> "None", outputs |-> "None", logits_cpu |-> "None",
             probs |-> "None", indices |-> "None"]

\* the record of a classify call that entered the try block
Classified(args, result, probs, indices, results) ==
  [op |-> "classify", result |-> result,
   ret |-> IF result = "ok" THEN "results" ELSE "raised",
   effects |-> Finally(args.empty_cuda_cache, cuda),
   pre |-> fields, pre_store |-> store, pre_cache_dir |-> cache_dir,
   args |-> args, probs |-> probs, indices |-> indices,
   results |-> results, locals |-> Released]

TopKArgs == {<<>>} \cup {<<k>> : k \in -1..MaxTopK}

ClassifyArgs ==
  [image : Images, top_k : TopKArgs, sort : BOOLEAN,
   empty_cuda_cache : BOOLEAN]

classify ==
  /\ \E args \in ClassifyArgs :
       IF NotLoaded(model, processor, device)
         THEN last' = [Call("classify", "NotLoaded", "raised", <<>>)
                         EXCEPT !.args = args]
       ELSE IF args.image = "invalid"
         THEN last' = Classified(args, "InferenceError", <<>>, <<>>, <<>>)
       ELSE LET probs == scores IN
              IF TopKOutOfBounds(args.top_k, Len(probs))
                THEN last' = Classified(args, "InvalidArgument", probs,
                                        <<>>, <<>>)
              ELSE \E indices \in SelectIndices(probs, args.top_k) :
                     LET results == BuildResults(id2label, probs, indices)
                     IN last' = Classified(args, "ok", probs, indices,
                                  IF ~args.sort THEN results
                                  ELSE Reorder(results, label_order))
  /\ twice' = FALSE
  /\ checked' = "none"
  /\ UNCHANGED <<processor, model, device, cache_dir, store, cuda, id2label,
                 scores, acquired, sinceUnload, downloaded>>

(* ---------------------------------------------------------------------- *)
(* Specification                                                           *)
(* ---------------------------------------------------------------------- *)

Next ==
  \/ load
  \/ classify
  \/ unload
  \/ is_model_downloaded
  \/ download_model

Spec == Init /\ [][Next]_vars

(* ---------------------------------------------------------------------- *)
(* Properties                                                              *)
(* ---------------------------------------------------------------------- *)

\* C1: in every reachable state processor, model and device are either all
\* unset or all set.
AllOrNothing == fields = Unset \/ Ready(fields)

\* C2: a load() that fails with ResourceUnavailable leaves processor, model
\* and device exactly as they were before the call.
FailedLoadLeavesState ==
  (last.op = "load" /\ last.result = "ResourceUnavailable")
    => fields = last.pre

\* C3: classify on a detector that is not Ready raises NotLoaded whatever
\* its arguments, returns nothing and leaves the three fields as they were.
ClassifyNotLoaded ==
  (last.op = "classify" /\ ~Ready(last.pre))
    => /\ last.result = "NotLoaded"
       /\ last.ret = "raised"
       /\ last.results = <<>>
       /\ fields = last.pre

\* a classify, with top_k and sort given, on the state a failed load left
ClassifyNotLoadedWitness ==
  /\ last.op = "classify"
  /\ last.result = "NotLoaded"
  /\ last.pre[1] # None
  /\ last.args.top_k = <<2>>
  /\ last.args.sort

\* C4: unload() succeeds from every state and leaves the three fields unset,
\* and a classify() after an unload() with no successful load() in between
\* raises NotLoaded.
UnloadClears ==
  /\ last.op = "unload" => (last.result = "ok" /\ fields = Unset)
  /\ (sinceUnload /\ last.op = "classify") => last.result = "NotLoaded"

\* an unload() of the state a failed load left
UnloadClearsWitness ==
  /\ last.op = "unload"
  /\ last.pre[1] # None
  /\ last.pre[2] = None
  /\ fields = Unset

\* C5: a second unload() directly after a first one raises nothing, changes
\* no field and runs neither the garbage collector nor the cache clearing.
UnloadIdempotent ==
  (twice /\ last.op = "unload")
    => /\ last.result = "ok"
       /\ last.effects = <<>>
       /\ last.pre = Unset
       /\ fields = Unset

UnloadIdempotentWitness == twice /\ last.op = "unload" /\ acquired >= 2

\* C6: with both artifacts in the cache, load() from any state ends Ready and
\* returns self; it acquires a new processor and a new model even when the
\* detector was Ready; a classify() right after it does not raise NotLoaded.
LoadWhenCached ==
  /\ [](  (last.op = "load" /\ Artifacts \subseteq store)
            => /\ last.result = "ok"
               /\ last.ret = "self"
               /\ Ready(fields)
               /\ processor # last.pre[1]
               /\ model # last.pre[2]
               /\ {"from_pretrained:processor", "from_pretrained:model"}
                    \subseteq Range(last.effects) )
  /\ [][ (last.op = "load" /\ last.result = "ok" /\ classify)
           => last'.result # "NotLoaded" ]_vars

\* a load() that succeeded on a detector that was already Ready
LoadWhenCachedWitness ==
  /\ last.op = "load"
  /\ last.result = "ok"
  /\ Ready(last.pre)
  /\ Ready(fields)

\* C7: once a download_model() has succeeded, every later load() succeeds
\* and leaves the detector Ready.
LoadAfterDownload ==
  (downloaded /\ last.op = "load")
    => (last.result = "ok" /\ Ready(fields))

\* the retried load(): it succeeds from the state the failed load left
LoadAfterDownloadWitness ==
  /\ downloaded
  /\ last.op = "load"
  /\ last.result = "ok"
  /\ last.pre[1] # None
  /\ last.pre[2] = None

\* C8: in the Ready state a top_k that is 0, negative or above the number of
\* labels raises InvalidArgument for either value of sort, returns nothing
\* and leaves the fields as they were; every other top_k, and an omitted
\* one, is accepted.
TopKValidated ==
  (last.op = "classify" /\ Ready(last.pre) /\ last.args.image = "valid")
    => LET k == last.args.top_k
           inRange == k = <<>> \/ (1 <= k[1] /\ k[1] <= Len(id2label))
       IN /\ inRange <=> last.result = "ok"
          /\ ~inRange <=> last.result = "InvalidArgument"
          /\ ~inRange => /\ last.ret = "raised"
                         /\ last.results = <<>>
                         /\ fields = last.pre
                         /\ Ready(fields)

\* top_k = 0 rejected with sort=True
TopKValidatedWitness ==
  /\ last.op = "classify"
  /\ last.result = "InvalidArgument"
  /\ last.args.top_k = <<0>>
  /\ last.args.sort

\* the labels of the taxonomy that a result sequence does not carry
NotReturned(results) ==
  {i \in 1..Len(id2label) :
     \A n \in 1..Len(results) : results[n].label # id2label[i]}

\* exactly k entries, none scoring below a label that was left out
TopByValue(results, k) ==
  /\ Len(results) = k
  /\ \A n \in 1..Len(results) :
       \A i \in NotReturned(results) : results[n].score >= scores[i]

\* C9 as stated: for every top_k in 1..numLabels and either value of sort the
\* result has exactly top_k entries, each scoring at least as high as every
\* label that was not returned.
TopKEntries ==
  (last.op = "classify" /\ last.result = "ok" /\ last.args.top_k # <<>>)
    => TopByValue(last.results, last.args.top_k[1])

\* C9 amended: the same, when sort is false or every selected label is in
\* label_order.
TopKEntriesUnlessDropped ==
  ( /\ last.op = "classify" /\ last.result = "ok" /\ last.args.top_k # <<>>
    /\ \/ ~last.args.sort
       \/ \A n \in 1..Len(last.indices) :
            id2label[last.indices[n]] \in Range(label_order) )
    => TopByValue(last.results, last.args.top_k[1])

\* two of the labels returned, reordered, a lower-scoring label left out
TopKEntriesWitness ==
  /\ last.op = "classify"
  /\ last.result = "ok"
  /\ last.args.top_k = <<2>>
  /\ last.args.sort
  /\ Len(last.results) = 2
  /\ \E i \in NotReturned(last.results) : scores[i] < last.results[1].score

\* C10: with top_k omitted and sort=False the result has one entry for every
\* label index, in non-increasing score order, labels of equal score in
\* label-index order.
FullSortStable ==
  (last.op = "classify" /\ last.result = "ok"
     /\ last.args.top_k = <<>> /\ ~last.args.sort)
    => /\ Len(last.results) = Len(id2label)
       /\ Range(last.indices) = 1..Len(id2label)
       /\ \A n \in 1..Len(last.results) :
            last.results[n] = [label |-> id2label[last.indices[n]],
                               score |-> scores[last.indices[n]]]
       /\ \A m, n \in 1..Len(last.indices) :
            m < n => \/ scores[last.indices[m]] > scores[last.indices[n]]
                     \/ /\ scores[last.indices[m]] = scores[last.indices[n]]
                        /\ last.indices[m] < last.indices[n]

\* the labels of a result sequence, in order
LabelsOf(results) == [n \in 1..Len(results) |-> results[n].label]

\* high, medium, low, neutral, restricted to the labels in L
PriorityAmong(L) ==
  SelectSeq(<<"high", "medium", "low", "neutral">>, LAMBDA l : l \in L)

\* the labels classify selected before any reordering
SelectedLabels == {id2label[last.indices[n]] : n \in 1..Len(last.indices)}

\* C11 as stated: with sort=True the labels returned are, in order, the
\* members of high, medium, low, neutral that the taxonomy contains.
SortedLabelsOfTaxonomy ==
  (last.op = "classify" /\ last.result = "ok" /\ last.args.sort)
    => LabelsOf(last.results) = PriorityAmong(Range(id2label))

\* C11 amended: with sort=True the labels returned are, in order, the
\* members of high, medium, low, neutral among the labels classify selected
\* (all labels when top_k is omitted, the top_k selection otherwise); no
\* other label is returned and the order does not follow the scores.
SortedLabelsOfSelection ==
  (last.op = "classify" /\ last.result = "ok" /\ last.args.sort)
    => LabelsOf(last.results) = PriorityAmong(SelectedLabels)

\* all four labels returned in priority order against the score order
SortedLabelsWitness ==
  /\ last.op = "classify"
  /\ last.result = "ok"
  /\ last.args.sort
  /\ last.args.top_k = <<>>
  /\ Len(last.results) = 4
  /\ last.results[1].score < last.results[4].score

RECURSIVE SumScores(_)
SumScores(results) ==
  IF results = <<>> THEN 0
  ELSE results[1].score + SumScores(Tail(results))

\* every score in [0, 1] and the scores adding up to 1 (Scale units)
FullMass(results) ==
  /\ \A n \in 1..Len(results) :
       results[n].score >= 0 /\ results[n].score <= Scale
  /\ SumScores(results) = Scale

\* C12 as stated: the scores of every successful classify sum to 1.0,
\* whatever top_k and sort are.
ScoresSumToOne ==
  (last.op = "classify" /\ last.result = "ok") => FullMass(last.results)

\* C12 amended: the scores sum to 1.0, each in [0,1], when classify selects
\* every label (top_k omitted or equal to numLabels) and drops none (sort
\* false, or every label of the taxonomy in the priority list).
ScoresSumToOneWhenComplete ==
  ( /\ last.op = "classify" /\ last.result = "ok"
    /\ \/ last.args.top_k = <<>>
       \/ last.args.top_k = <<Len(id2label)>>
    /\ \/ ~last.args.sort
       \/ Range(id2label) \subseteq {"high", "medium", "low", "neutral"} )
    => FullMass(last.results)

\* a complete, reordered result over two labels of non-zero score
ScoresSumToOneWitness ==
  /\ last.op = "classify"
  /\ last.result = "ok"
  /\ last.args.top_k = <<>>
  /\ last.args.sort
  /\ Len(last.results) = 4
  /\ \E m, n \in 1..4 :
       m # n /\ last.results[m].score > 0 /\ last.results[n].score > 0

\* C13: when a classify call ends, by returning or by raising, none of its
\* intermediates is still held: a call that got past the Ready check ran the
\* release step first, before any cache clearing, and a call that raised
\* NotLoaded never bound an intermediate.
NothingHeld ==
  last.op = "classify"
    => /\ \A l \in {"inputs", "outputs", "logits_cpu", "probs", "indices"} :
            last.locals[l] # "held"
       /\ last.result = "NotLoaded" => last.locals = NoLocals
       /\ last.result # "NotLoaded"
            => /\ last.effects # <<>>
               /\ last.effects[1] = "release"
               /\ \A l \in DOMAIN last.locals : last.locals[l] = "None"

\* a call that raised InvalidArgument after the softmax and released
NothingHeldWitness ==
  /\ last.op = "classify"
  /\ last.result = "InvalidArgument"
  /\ last.probs # <<>>
  /\ last.locals.probs = "None"

\* C14: classify, is_model_downloaded and download_model leave processor,
\* model, device and cache_dir as they were, whether they succeed or fail;
\* only load and unload change the three fields and nothing changes
\* cache_dir.
NoLifecycleTransition ==
  /\ last.op \in {"classify", "is_model_downloaded", "download_model"}
       => fields = last.pre
  /\ fields # last.pre => last.op \in {"load", "unload"}
  /\ cache_dir = last.pre_cache_dir
  /\ cache_dir = "./models/hf"

\* a classify that failed on a Ready detector
NoLifecycleTransitionWitness ==
  /\ last.op = "classify"
  /\ last.result = "InferenceError"
  /\ Ready(fields)

\* position of the first occurrence of e in a non-empty sequence holding it
IndexOf(seq, e) == CHOOSE i \in 1..Len(seq) :
                     seq[i] = e /\ \A j \in 1..(i - 1) : seq[j] # e

\* C15: a classify call on a Ready detector clears the accelerator cache if
\* and only if empty_cuda_cache is true and the detector's device is the
\* accelerator, on failing exits as on success, and then only after the
\* intermediates have been released.
CacheClearedOnRequest ==
  (last.op = "classify" /\ Ready(last.pre))
    => LET cleared == "cuda.empty_cache" \in Range(last.effects)
       IN /\ cleared <=> (last.args.empty_cuda_cache
                            /\ last.pre[3] = "cuda:0")
          /\ cleared => /\ "release" \in Range(last.effects)
                        /\ IndexOf(last.effects, "release")
                             < IndexOf(last.effects, "cuda.empty_cache")

\* the cache cleared on the InvalidArgument exit
CacheClearedOnRequestWitness ==
  /\ last.op = "classify"
  /\ last.result = "InvalidArgument"
  /\ last.args.empty_cuda_cache
  /\ last.pre[3] = "cuda:0"
  /\ "cuda.empty_cache" \in Range(last.effects)

\* C16: an unload() that clears something runs the garbage collector after
\* clearing the references, and clears the accelerator cache and the
\* cross-process handles if and only if the detector's device was the
\* accelerator; a detector on the CPU, or never loaded, causes no accelerator
\* cache clear through unload().
UnloadReclaimsByDevice ==
  /\ (last.op = "unload" /\ last.pre # Unset)
       => /\ Len(last.effects) >= 2
          /\ last.effects[1] = "clear_references"
          /\ last.effects[2] = "gc.collect"
          /\ {"cuda.empty_cache", "cuda.ipc_collect"}
                 \subseteq Range(last.effects)
               <=> last.pre[3] = "cuda:0"
  /\ (last.op = "unload" /\ last.pre[3] # "cuda:0")
       => "cuda.empty_cache" \notin Range(last.effects)

ProbeAsked == "cuda.is_available" \in Range(last.effects)

\* after a successful load the device is the accelerator exactly when the
\* probe says so, and only load and unload change the device
DeviceFixedByLoad ==
  /\ (last.op = "load" /\ last.result = "ok")
       => /\ device \in {"cuda:0", "cpu"}
          /\ device = "cuda:0" <=> cuda
  /\ device # last.pre[3] => last.op \in {"load", "unload"}

\* C18 as stated: the device follows the probe of the load, stays fixed
\* until the next load or unload, and the probe is asked during load only.
ProbeAskedByLoadOnly ==
  /\ DeviceFixedByLoad
  /\ ProbeAsked => last.op = "load"

\* C18 amended: the device follows the probe of the load and stays fixed
\* until the next load or unload; the probe is asked by a successful load,
\* by a classify that got past the Ready check with empty_cuda_cache true,
\* and by an unload that clears something, and by no other call.
ProbeAskedByLoadClassifyUnload ==
  /\ DeviceFixedByLoad
  /\ ProbeAsked <=>
       \/ last.op = "load" /\ last.result = "ok"
       \/ /\ last.op = "classify"
          /\ last.result # "NotLoaded"
          /\ last.args.empty_cuda_cache
       \/ last.op = "unload" /\ last.pre # Unset

\* a classify that asked the probe and left the accelerator device in place
ProbeAskedWitness ==
  /\ last.op = "classify"
  /\ last.result = "ok"
  /\ ProbeAsked
  /\ last.pre[3] = "cuda:0"
  /\ device = "cuda:0"

\* C19: a result returned with sort=True holds only entries that the
\* sort=False result over the same selection holds, with the same score,
\* each label at most once, and is never the longer of the two.
ReorderInventsNothing ==
  (last.op = "classify" /\ last.result = "ok" /\ last.args.sort)
    => /\ Len(last.results) <= Len(last.indices)
       /\ \A n \in 1..Len(last.results) :
            \E m \in 1..Len(last.indices) :
              last.results[n] = [label |-> id2label[last.indices[m]],
                                 score |-> scores[last.indices[m]]]
       /\ \A m, n \in 1..Len(last.results) :
            m # n => last.results[m].label # last.results[n].label

\* a reordered result that lost a label of the selection
ReorderInventsNothingWitness ==
  /\ last.op = "classify"
  /\ last.result = "ok"
  /\ last.args.sort
  /\ Len(last.results) >= 1
  /\ Len(last.results) < Len(last.indices)

\* C20 as stated: is_model_downloaded returns True if and only if a load
\* issued right after it succeeds.
PresenceAgreesWithLoad ==
  (last.op = "load" /\ checked # "none")
    => (checked = "True" <=> last.result = "ok")

\* C20 amended: after is_model_downloaded returned False a load fails with
\* ResourceUnavailable; after it returned True a load succeeds when every
\* artifact is in the cache (with only part of them cached it returns True
\* and the load fails).
PresenceBoundsLoad ==
  /\ (last.op = "load" /\ checked = "False")
       => last.result = "ResourceUnavailable"
  /\ (last.op = "load" /\ checked = "True" /\ last.pre_store = Artifacts)
       => last.result = "ok"

\* True answered and the load right after it succeeded
PresenceBoundsLoadWitness ==
  /\ last.op = "load"
  /\ checked = "True"
  /\ last.result = "ok"

====
